---- MODULE Spec2Model ----
(***************************************************************************)
(* ContactPIIMasker.mask_contact_info_in_pdf (src/main.py, lines 67-146)  *)
(* as a state machine.  One action per step of the routine: opening the    *)
(* document, entering a page (layout extraction), the image loop, entering *)
(* a block, one iteration of the line loop, the end of a page (apply), and *)
(* save/close/return.  Calls into the PDF library that can raise are given *)
(* a failing outcome next to the successful one.                           *)
(*                                                                         *)
(* Text.  A span's text is a sequence of tokens; each token stands for a   *)
(* concrete string:                                                        *)
(*     "E"  =  " a@b.co "         (an e-mail address)                      *)
(*     "P"  =  " 555-123-4567 "   (a phone number)                         *)
(*     "L"  =  "linkedin.com"     (first half of a profile URL)            *)
(*     "U"  =  "/in/jo"           (second half of a profile URL)           *)
(* On every concatenation of these strings the three regular expressions   *)
(* of lines 81-88 decide exactly as email_re, phone_re and linkedin_re     *)
(* below do on the token sequence.                                         *)
(***************************************************************************)
EXTENDS Integers, Sequences, FiniteSets, TLC

\* ------------------------------------------------------------------ bounds
\* Most spans of a single-page, image-free document.
MaxSpans == 4
\* Longest flat description of a document with pages and images.
MaxDocLen == 3

\* ----------------------------------------------------------------- helpers
Front(s) == SubSeq(s, 1, Len(s) - 1)

Last(s) == s[Len(s)]

RECURSIVE Concat(_)
\* "".join(s["text"] for s in spans): the texts in order, no separator.
Concat(spans) ==
    IF spans = <<>> THEN <<>> ELSE Concat(Front(spans)) \o Last(spans)

RECURSIVE Sum(_)
Sum(s) == IF s = <<>> THEN 0 ELSE Sum(Front(s)) + Last(s)

RECURSIVE Pick(_, _)
\* The subsequence of s at the indices in K.
Pick(s, K) ==
    IF s = <<>> THEN <<>>
    ELSE IF Len(s) \in K THEN Append(Pick(Front(s), K), Last(s))
         ELSE Pick(Front(s), K)

\* ---------------------------------------------------------------- patterns
Tokens == {"E", "P", "L", "U"}

email_re(txt) == \E i \in 1..Len(txt) : txt[i] = "E"

phone_re(txt) == \E i \in 1..Len(txt) : txt[i] = "P"

linkedin_re(txt) == \E i \in 1..(Len(txt) - 1) : txt[i] = "L" /\ txt[i + 1] = "U"

\* --------------------------------------------------------------- documents
\* A document is a sequence of pages; a page has images (for each image the
\* number of rectangles it is placed at) and blocks; a block is a sequence
\* of lines, a line a sequence of spans, a span its text.
Symbols == Tokens \cup {"nl", "nb", "np", "img", "rect"}

TextSymbols == Tokens \cup {"nl", "nb"}

\* The single-page documents are written without "P": a phone number and an
\* e-mail address take the same branch of line 115, and the lines that carry
\* both are among the documents with pages and images.
PlainTokens == {"E", "L", "U"}

\* Where a span starts: in the line of the span before it, in a new line of
\* the same block, or in a new block.
Breaks == {"span", "line", "block"}

RECURSIVE SplitOn(_, _)
SplitOn(s, sep) ==
    IF \A i \in 1..Len(s) : s[i] # sep THEN <<s>>
    ELSE LET i == CHOOSE k \in 1..Len(s) :
                      s[k] = sep /\ \A j \in 1..(k - 1) : s[j] # sep
         IN  <<SubSeq(s, 1, i - 1)>> \o SplitOn(SubSeq(s, i + 1, Len(s)), sep)

RECURSIVE ImagesOf(_)
ImagesOf(s) ==
    IF s = <<>> THEN <<>>
    ELSE LET prev == ImagesOf(Front(s))
         IN  IF Last(s) = "img" THEN Append(prev, 1)
             ELSE IF Last(s) = "rect" /\ prev # <<>>
                  THEN [prev EXCEPT ![Len(prev)] = @ + 1]
                  ELSE prev

LineOf(s) == [k \in 1..Len(s) |-> <<s[k]>>]

\* The library reports no line without spans; a block without lines is an
\* image block (line 103 reads its lines as the empty list).
BlockOf(s) ==
    LET ls == SelectSeq(SplitOn(s, "nl"), LAMBDA x : x # <<>>)
    IN  [l \in 1..Len(ls) |-> LineOf(ls[l])]

BlocksOf(s) ==
    LET text == SelectSeq(s, LAMBDA x : x \in TextSymbols)
        bs   == SplitOn(text, "nb")
    IN  IF text = <<>> THEN <<>> ELSE [b \in 1..Len(bs) |-> BlockOf(bs[b])]

PageOf(s) == [images |-> ImagesOf(s), blocks |-> BlocksOf(s)]

DocOf(s) == LET ps == SplitOn(s, "np") IN [p \in 1..Len(ps) |-> PageOf(ps[p])]

\* A document of several pages, with images, image blocks and text.
IsPagedDoc(d) ==
    \E k \in 0..MaxDocLen : \E s \in [1..k -> Symbols] : d = DocOf(s)

RECURSIVE Layout(_, _)
\* The blocks made of the spans toks, toks[k + 1] starting as brks[k] says.
Layout(toks, brks) ==
    IF toks = <<>> THEN <<>>
    ELSE IF Len(toks) = 1 THEN <<<<<<toks>>>>>>
    ELSE LET prev == Layout(Front(toks), Front(brks))
             span == <<Last(toks)>>
             b    == Len(prev)
             l    == Len(prev[b])
         IN  CASE Last(brks) = "span"  -> [prev EXCEPT ![b][l] = Append(@, span)]
               [] Last(brks) = "line"  -> [prev EXCEPT ![b] = Append(@, <<span>>)]
               [] Last(brks) = "block" -> Append(prev, <<<<span>>>>)

\* A document of one page of text.
IsTextDoc(d) ==
    \E n \in 0..MaxSpans :
        \E t \in [1..n -> PlainTokens] : \E b \in [1..(n - 1) -> Breaks] :
            d = <<[images |-> <<>>, blocks |-> Layout(t, b)]>>

\* ------------------------------------------------------------------- state
VARIABLES
    doc,              \* the document as the library holds it (page contents)
    remove_photos,    \* the parameter of the call
    handle,           \* "none", "open" or "closed": the handle of line 77
    pc,               \* "start", "page", "images", "scan", "returned", "raised"
    page_num,         \* the page the loop of line 90 is at (0 before it)
    page_dict,        \* the blocks extracted at line 92
    blk,              \* the block the loop of line 102 is at (0 before it)
    idx,              \* the line the loop of line 105 is at
    skip_next,
    page_redactions,
    total_redactions,
    annots,           \* per page, the redaction regions registered and not applied
    saved,            \* the document written by line 139 (<<>>: none)
    result,           \* the returned pair (<<>>: none)
    input,            \* the document as it was opened
    log,              \* every region registered, in order
    evals,            \* every iteration of the line loop, in order
    counters,         \* page_redactions at the end of each finished page
    applied,          \* the pages apply_redactions was called on, in order
    failed,           \* the library call that raised ("none": none)
    run,              \* 1, or 2 for a second call on the first call's output
    first             \* the count returned by the first call (-1: none)

vars == <<doc, remove_photos, handle, pc, page_num, page_dict, blk, idx,
          skip_next, page_redactions, total_redactions, annots, saved, result,
          input, log, evals, counters, applied, failed, run, first>>

callVars == <<remove_photos, input, run, first>>

Init ==
    /\ IsTextDoc(doc) \/ IsPagedDoc(doc)
    /\ remove_photos \in BOOLEAN
    /\ handle = "none"
    /\ pc = "start"
    /\ page_num = 0
    /\ page_dict = <<>>
    /\ blk = 0
    /\ idx = 1
    /\ skip_next = FALSE
    /\ page_redactions = 0
    /\ total_redactions = 0
    /\ annots = <<>>
    /\ saved = <<>>
    /\ result = <<>>
    /\ input = doc
    /\ log = <<>>
    /\ evals = <<>>
    /\ counters = <<>>
    /\ applied = <<>>
    /\ failed = "none"
    /\ run = 1
    /\ first = -1

\* The call raises out of the library call `what`; nothing else changes.
Raise(what) ==
    /\ pc' = "raised"
    /\ failed' = what

\* ------------------------------------------------------------------- open
\* Lines 77-78.
Open ==
    /\ pc = "start"
    /\ \/ /\ handle' = "open"
          /\ pc' = "page"
          /\ annots' = [p \in 1..Len(doc) |-> <<>>]
          /\ total_redactions' = 0
          /\ UNCHANGED failed
       \/ /\ Raise("open")
          /\ UNCHANGED <<handle, annots, total_redactions>>
    /\ UNCHANGED <<doc, page_num, page_dict, blk, idx, skip_next,
                   page_redactions, saved, result, log, evals, counters,
                   applied>>
    /\ UNCHANGED callVars

\* ------------------------------------------------------------- page entry
\* Lines 90-92: the next page, its counter, its layout.
NextPage ==
    /\ pc = "page"
    /\ page_num < Len(doc)
    /\ page_num' = page_num + 1
    /\ page_redactions' = 0
    /\ \/ /\ page_dict' = doc[page_num + 1].blocks
          /\ pc' = "images"
          /\ UNCHANGED failed
       \/ /\ Raise("layout")
          /\ UNCHANGED page_dict
    /\ blk' = 0
    /\ idx' = 1
    /\ UNCHANGED <<doc, handle, skip_next, total_redactions, annots, saved,
                   result, log, evals, counters, applied>>
    /\ UNCHANGED callVars

\* ------------------------------------------------------------------ images
ImageRegion(p, i, r) ==
    [page |-> p, fill |-> "white", at |-> <<"image", i, r>>, by |-> <<0, 0>>]

\* A bug: one region per image, whatever the number of its placements.
ImageRegionsPerImage(p, images, n) == [i \in 1..n |-> ImageRegion(p, i, 1)]

RECURSIVE ImageRegions(_, _, _)
\* Lines 96-98: one region per placement rectangle, image by image.
ImageRegions(p, images, n) ==
    IF n = 0 THEN <<>>
    ELSE ImageRegions(p, images, n - 1)
            \o [r \in 1..images[n] |-> ImageRegion(p, n, r)]

\* A bug: the image loop runs whatever remove_photos says.
PhotoRegionsAlways(p, images, remove) == ImageRegions(p, images, Len(images))

\* The regions the image loop registers on page p.
PhotoRegions(p, images, remove) ==
    IF remove THEN ImageRegions(p, images, Len(images)) ELSE <<>>

\* Lines 94-99.
RemoveImages ==
    /\ pc = "images"
    /\ \/ LET new == PhotoRegions(page_num, doc[page_num].images, remove_photos)
          IN  /\ annots' = [annots EXCEPT ![page_num] = @ \o new]
              /\ log' = log \o new
              /\ page_redactions' = page_redactions + Len(new)
              /\ pc' = "scan"
              /\ UNCHANGED failed
       \/ /\ remove_photos
          /\ Raise("images")
          /\ UNCHANGED <<annots, log, page_redactions>>
    /\ UNCHANGED <<doc, handle, page_num, page_dict, blk, idx, skip_next,
                   total_redactions, saved, result, evals, counters, applied>>
    /\ UNCHANGED callVars

\* ------------------------------------------------------------------ blocks
\* The lines of the block the scan is in (none before the first block).
Lines == IF blk = 0 THEN <<>> ELSE page_dict[blk]

BlockDone == blk = 0 \/ idx > Len(Lines)

\* Lines 102-104: the next block, the flag cleared.
NextBlock ==
    /\ pc = "scan"
    /\ BlockDone
    /\ blk < Len(page_dict)
    /\ blk' = blk + 1
    /\ idx' = 1
    /\ skip_next' = FALSE
    /\ UNCHANGED <<doc, handle, pc, page_num, page_dict, page_redactions,
                   total_redactions, annots, saved, result, log, evals,
                   counters, applied, failed>>
    /\ UNCHANGED callVars

\* ------------------------------------------------------------------- lines
\* A bug: a missing next line is taken for an empty one.
HasNextAlways(lines, i) == TRUE

\* Line 119: idx + 1 < len(lines), with idx counted from 1 here.
HasNext(lines, i) == i + 1 <= Len(lines)

\* Line 120: spans_j.
NextSpans(lines, i) == IF i + 1 <= Len(lines) THEN lines[i + 1] ELSE <<>>

\* Line 115.
IsContact(lines, i) ==
    email_re(Concat(lines[i])) \/ phone_re(Concat(lines[i]))

\* Lines 119-122.
IsLinkedIn(lines, i) ==
    /\ HasNext(lines, i)
    /\ linkedin_re(Concat(lines[i]) \o Concat(NextSpans(lines, i)))

\* Lines 115-124: how line i is classified when it is a primary candidate.
Classify(lines, i) ==
    IF IsContact(lines, i) THEN "contact"
    ELSE IF IsLinkedIn(lines, i) THEN "linkedin"
    ELSE "none"

SpanRegion(p, b, l, k, i) ==
    [page |-> p, fill |-> "black", at |-> <<"span", b, l, k>>, by |-> <<b, i>>]

LineRegions(p, b, lines, l, i) ==
    IF l <= Len(lines)
    THEN [k \in 1..Len(lines[l]) |-> SpanRegion(p, b, l, k, i)]
    ELSE <<>>

\* A bug: the look-ahead is not under `else`, and adds to the spans an e-mail
\* or phone match has already taken.
SpansToRedactNoElse(p, b, lines, i) ==
    (IF IsContact(lines, i) THEN LineRegions(p, b, lines, i, i) ELSE <<>>)
        \o (IF IsLinkedIn(lines, i)
            THEN LineRegions(p, b, lines, i, i) \o LineRegions(p, b, lines, i + 1, i)
            ELSE <<>>)

\* Lines 112-123: spans_to_redact of primary line i, as regions.
SpansToRedact(p, b, lines, i) ==
    LET how == Classify(lines, i)
    IN  IF how = "contact" THEN LineRegions(p, b, lines, i, i)
        ELSE IF how = "linkedin"
             THEN LineRegions(p, b, lines, i, i) \o LineRegions(p, b, lines, i + 1, i)
             ELSE <<>>

\* A bug: the flag is never set.
SkipAfterNever(lines, i) == FALSE

\* Line 124.
SkipAfter(lines, i) == Classify(lines, i) = "linkedin"

Eval(how) == [page |-> page_num, blk |-> blk, idx |-> idx, how |-> how]

\* Lines 105-129: one iteration of the line loop.
ScanLine ==
    /\ pc = "scan"
    /\ ~BlockDone
    /\ \/ /\ skip_next
          /\ skip_next' = FALSE
          /\ evals' = Append(evals, Eval("skipped"))
          /\ UNCHANGED <<annots, log, page_redactions>>
       \/ /\ ~skip_next
          /\ LET new == SpansToRedact(page_num, blk, Lines, idx)
             IN  /\ annots' = [annots EXCEPT ![page_num] = @ \o new]
                 /\ log' = log \o new
                 /\ page_redactions' = page_redactions + Len(new)
          /\ skip_next' = SkipAfter(Lines, idx)
          /\ evals' = Append(evals, Eval(Classify(Lines, idx)))
    /\ idx' = idx + 1
    /\ UNCHANGED <<doc, handle, pc, page_num, page_dict, blk,
                   total_redactions, saved, result, counters, applied, failed>>
    /\ UNCHANGED callVars

\* ------------------------------------------------------------- end of page
Covered(regs, at) == \E n \in 1..Len(regs) : regs[n].at = at

\* A bug: the covered text leaves the page, the covered images stay.
ApplyRedactionsKeepImages(page, regs) ==
    LET line(b, l) ==
            Pick(page.blocks[b][l],
                 {k \in 1..Len(page.blocks[b][l]) :
                    ~Covered(regs, <<"span", b, l, k>>)})
        block(b) ==
            SelectSeq([l \in 1..Len(page.blocks[b]) |-> line(b, l)],
                      LAMBDA x : x # <<>>)
    IN  [images |-> page.images,
         blocks |-> SelectSeq([b \in 1..Len(page.blocks) |-> block(b)],
                              LAMBDA x : x # <<>>)]

\* page.apply_redactions(): the covered spans and image placements leave the
\* page; a line left without spans, a block left without lines and an image
\* left without placements are no longer part of the layout.
ApplyRedactions(page, regs) ==
    LET left(i) == Cardinality({r \in 1..page.images[i] :
                                  ~Covered(regs, <<"image", i, r>>)})
        imgs    == [i \in 1..Len(page.images) |-> left(i)]
        line(b, l) ==
            Pick(page.blocks[b][l],
                 {k \in 1..Len(page.blocks[b][l]) :
                    ~Covered(regs, <<"span", b, l, k>>)})
        block(b) ==
            SelectSeq([l \in 1..Len(page.blocks[b]) |-> line(b, l)],
                      LAMBDA x : x # <<>>)
    IN  [images |-> SelectSeq(imgs, LAMBDA n : n > 0),
         blocks |-> SelectSeq([b \in 1..Len(page.blocks) |-> block(b)],
                              LAMBDA x : x # <<>>)]

\* A bug: a page with a single region is not applied.
MustApplySeveral(n) == n > 1

\* Line 131.
MustApply(n) == n # 0

\* A bug: = for +=.
AddToTotalAssign(total, n) == n

\* Line 136.
AddToTotal(total, n) == total + n

\* Lines 131-136.
EndPage ==
    /\ pc = "scan"
    /\ BlockDone
    /\ blk = Len(page_dict)
    /\ \/ /\ MustApply(page_redactions)
          /\ doc' = [doc EXCEPT ![page_num] = ApplyRedactions(@, annots[page_num])]
          /\ annots' = [annots EXCEPT ![page_num] = <<>>]
          /\ applied' = Append(applied, page_num)
          /\ total_redactions' = AddToTotal(total_redactions, page_redactions)
          /\ counters' = Append(counters, page_redactions)
          /\ pc' = "page"
          /\ UNCHANGED failed
       \/ /\ MustApply(page_redactions)
          /\ Raise("apply")
          /\ UNCHANGED <<doc, annots, applied, total_redactions, counters>>
       \/ /\ ~MustApply(page_redactions)
          /\ counters' = Append(counters, page_redactions)
          /\ pc' = "page"
          /\ UNCHANGED <<doc, annots, applied, total_redactions, failed>>
    /\ UNCHANGED <<handle, page_num, page_dict, blk, idx, skip_next,
                   page_redactions, saved, result, log, evals>>
    /\ UNCHANGED callVars

\* ------------------------------------------------------------------- save
\* Lines 142-145.
Report(total) == <<"Contact Masking Report", "Total items redacted: ", total>>

\* Lines 138-146.
Save ==
    /\ pc = "page"
    /\ page_num = Len(doc)
    /\ \/ /\ saved' = doc
          /\ handle' = "closed"
          /\ result' = [count |-> total_redactions,
                        report |-> Report(total_redactions)]
          /\ pc' = "returned"
          /\ UNCHANGED failed
       \/ /\ Raise("save")
          /\ UNCHANGED <<saved, handle, result>>
    /\ UNCHANGED <<doc, page_num, page_dict, blk, idx, skip_next,
                   page_redactions, total_redactions, annots, log, evals,
                   counters, applied>>
    /\ UNCHANGED callVars

\* ------------------------------------------------------------ second call
\* The caller runs the routine again on the file the first call wrote, with
\* the same remove_photos.
Rerun ==
    /\ pc = "returned"
    /\ run = 1
    /\ run' = 2
    /\ first' = result.count
    /\ doc' = saved
    /\ input' = saved
    /\ handle' = "none"
    /\ pc' = "start"
    /\ page_num' = 0
    /\ page_dict' = <<>>
    /\ blk' = 0
    /\ idx' = 1
    /\ skip_next' = FALSE
    /\ page_redactions' = 0
    /\ total_redactions' = 0
    /\ annots' = <<>>
    /\ saved' = <<>>
    /\ result' = <<>>
    /\ log' = <<>>
    /\ evals' = <<>>
    /\ counters' = <<>>
    /\ applied' = <<>>
    /\ UNCHANGED <<remove_photos, failed>>

\* ---------------------------------------------------------- specifications
Next ==
    \/ Open
    \/ NextPage
    \/ RemoveImages
    \/ NextBlock
    \/ ScanLine
    \/ EndPage
    \/ Save

Spec == Init /\ [][Next]_vars

NextTwice == Next \/ Rerun

SpecTwice == Init /\ [][NextTwice]_vars

\* ------------------------------------------------------------ vocabulary
\* The pages, blocks and lines of the document as it was opened.
Pages == 1..Len(input)

BlocksIn(p) == 1..Len(input[p].blocks)

LinesIn(p, b) == 1..Len(input[p].blocks[b])

SpansOf(p, b, l) == input[p].blocks[b][l]

TextOf(p, b, l) == Concat(SpansOf(p, b, l))

\* Line l matches the e-mail or the phone pattern.
Contact(p, b, l) == email_re(TextOf(p, b, l)) \/ phone_re(TextOf(p, b, l))

\* Line l has a successor in its block and the two texts, concatenated,
\* match the LinkedIn pattern.
Pair(p, b, l) ==
    /\ l + 1 \in LinesIn(p, b)
    /\ linkedin_re(TextOf(p, b, l) \o TextOf(p, b, l + 1))

\* The places in the log of the regions registered on page p.
RegionsOn(p) == {n \in 1..Len(log) : log[n].page = p}

\* The places in the log of the black regions registered for line l.
RegionsAt(p, b, l) ==
    {n \in RegionsOn(p) :
        /\ log[n].fill = "black"
        /\ log[n].at[2] = b
        /\ log[n].at[3] = l}

\* The places in the log of the white regions registered on page p.
WhiteOn(p) == {n \in RegionsOn(p) : log[n].fill = "white"}

\* Every span of line l has exactly one region.
MarkedOnce(p, b, l) ==
    \A k \in 1..Len(SpansOf(p, b, l)) :
        Cardinality({n \in RegionsAt(p, b, l) : log[n].at[4] = k}) = 1

Iterations(p, b, l) ==
    {n \in 1..Len(evals) :
        evals[n].page = p /\ evals[n].blk = b /\ evals[n].idx = l}

\* Line l was evaluated as a primary candidate.
Primary(p, b, l) == \E n \in Iterations(p, b, l) : evals[n].how # "skipped"

\* Line l was passed over by the flag.
Skipped(p, b, l) == \E n \in Iterations(p, b, l) : evals[n].how = "skipped"

\* The loop is about to pass line l over.
AboutToSkip(p, b, l) ==
    /\ pc = "scan"
    /\ page_num = p
    /\ blk = b
    /\ idx = l
    /\ skip_next

\* The pages whose iteration of the loop of line 90 has ended.
Finished == 1..Len(counters)

\* Lines i and i+1 were folded into one match by line i.
Folded(p, b, i) ==
    /\ MarkedOnce(p, b, i)
    /\ MarkedOnce(p, b, i + 1)
    /\ \A n \in RegionsAt(p, b, i) \cup RegionsAt(p, b, i + 1) : log[n].by = <<b, i>>
    /\ Cardinality(RegionsAt(p, b, i) \cup RegionsAt(p, b, i + 1))
           = Len(SpansOf(p, b, i)) + Len(SpansOf(p, b, i + 1))
    /\ ~Primary(p, b, i + 1)
    /\ Skipped(p, b, i + 1) \/ AboutToSkip(p, b, i + 1)

\* No line matches e-mail or phone, no adjacent pair matches LinkedIn.
NoPII(d) ==
    \A p \in 1..Len(d) : \A b \in 1..Len(d[p].blocks) :
        LET ls == d[p].blocks[b]
        IN  \A l \in 1..Len(ls) :
                /\ ~email_re(Concat(ls[l]))
                /\ ~phone_re(Concat(ls[l]))
                /\ l < Len(ls) => ~linkedin_re(Concat(ls[l]) \o Concat(ls[l + 1]))

\* ------------------------------------------------------------------ C1
\* C1, as stated: whenever the call has returned, for any two adjacent lines
\* i and i+1 of a block where line i matches neither e-mail nor phone and
\* the concatenation matches LinkedIn, every span of both lines is marked,
\* line i+1 was skipped, and the two lines count for exactly
\* len(spans(i)) + len(spans(i+1)).
C1_AnyAdjacentPairFolded ==
    pc = "returned" =>
        \A p \in Pages : \A b \in BlocksIn(p) : \A i \in LinesIn(p, b) :
            (~Contact(p, b, i) /\ Pair(p, b, i)) => Folded(p, b, i)

\* C1, amended: the same for every line i that was evaluated as a primary
\* candidate (not itself consumed by the look-ahead of line i-1), from the
\* step that evaluated it on.
C1_PrimaryPairFolded ==
    \A p \in Pages : \A b \in BlocksIn(p) : \A i \in LinesIn(p, b) :
        (Primary(p, b, i) /\ ~Contact(p, b, i) /\ Pair(p, b, i))
            => Folded(p, b, i)

\* A primary line folded its successor, which matches e-mail on its own.
C1_Witness ==
    /\ pc = "returned"
    /\ \E p \in Pages : \E b \in BlocksIn(p) : \E i \in LinesIn(p, b) :
          /\ Primary(p, b, i)
          /\ ~Contact(p, b, i)
          /\ Pair(p, b, i)
          /\ Contact(p, b, i + 1)

\* ------------------------------------------------------------------ C2
\* C2: once the call has ended (returned, or raised after the document was
\* opened) the handle is closed, and a closed handle is never used again:
\* it is closed only in a call that has returned.
C2_ClosedOnEveryExit ==
    /\ (pc \in {"returned", "raised"} /\ failed # "open") => handle = "closed"
    /\ handle = "closed" => pc = "returned"

\* ------------------------------------------------------------------ C3
\* C3: a failing layout extraction of a page does not make the call fail.
C3_LayoutFailureTolerated == failed = "layout" => pc # "raised"

\* ------------------------------------------------------------------ C4
\* C4, as stated: a second call on the output of the first returns 0.
C4_SecondRunCountsNothing ==
    (run = 2 /\ pc = "returned") => result.count = 0

\* C4, amended: a second call on the output of the first returns 0 whenever
\* that output holds no remaining PII (no line matching e-mail or phone, no
\* adjacent pair of lines of a block matching LinkedIn).
C4_SecondRunOnCleanOutput ==
    (run = 2 /\ pc = "returned" /\ NoPII(input)) => result.count = 0

\* The first call redacted something, the second found nothing.
C4_Witness ==
    /\ run = 2
    /\ pc = "returned"
    /\ first > 0
    /\ NoPII(input)
    /\ result.count = 0

\* ------------------------------------------------------------------ C5
\* C5: on a document without PII and with remove_photos off, no region is
\* ever registered, no page is ever applied, the pages stay as they were,
\* and the call returns count 0 and saves the pages of the input.
C5_NoPIINoChange ==
    (run = 1 /\ ~remove_photos /\ NoPII(input)) =>
        /\ log = <<>>
        /\ applied = <<>>
        /\ \A p \in 1..Len(annots) : annots[p] = <<>>
        /\ doc = input
        /\ pc = "returned" => (result.count = 0 /\ saved = input)

\* Such a call returned, on a document with an image and a block whose only
\* line is a whole profile URL.
C5_Witness ==
    /\ pc = "returned"
    /\ ~remove_photos
    /\ NoPII(input)
    /\ \E p \in Pages : input[p].images # <<>>
    /\ \E p \in Pages : \E b \in BlocksIn(p) :
          LinesIn(p, b) = {1} /\ linkedin_re(TextOf(p, b, 1))

\* ------------------------------------------------------------------ C6
\* The pages whose image loop has run.
PastImages ==
    {p \in Pages : p < page_num \/ (p = page_num /\ pc \in {"scan", "page", "returned"})}

Placements(p) == Sum(input[p].images)

\* C6: with remove_photos the white regions of a page, and what the image
\* loop adds to the page counter, number the placement rectangles of the
\* page's images; without it there are none and the loop adds 0.
C6_OneRegionPerPlacement ==
    /\ \A p \in PastImages :
          Cardinality(WhiteOn(p)) = (IF remove_photos THEN Placements(p) ELSE 0)
    /\ (pc = "scan" /\ blk = 0) =>
          page_redactions = (IF remove_photos THEN Placements(page_num) ELSE 0)
    /\ \A p \in Finished :
          counters[p] - Cardinality(RegionsOn(p) \ WhiteOn(p))
              = (IF remove_photos THEN Placements(p) ELSE 0)

\* A page whose placements outnumber its images was counted.
C6_Witness ==
    /\ pc = "returned"
    /\ remove_photos
    /\ \E p \in Pages :
          /\ Placements(p) > Len(input[p].images)
          /\ counters[p] = Placements(p)

\* ------------------------------------------------------------------ C7
\* C7: no span has two black regions, and the page counter counts each
\* registered region once.
C7_EachSpanOnce ==
    /\ \A n, m \in 1..Len(log) :
          (n # m /\ log[n].fill = "black" /\ log[m].fill = "black")
              => (log[n].page # log[m].page \/ log[n].at # log[m].at)
    /\ pc = "scan" => page_redactions = Cardinality(RegionsOn(page_num))
    /\ \A p \in Finished : counters[p] = Cardinality(RegionsOn(p))

\* A line matching e-mail and phone was marked, each span once.
C7_Witness ==
    /\ pc = "returned"
    /\ \E p \in Pages : \E b \in BlocksIn(p) : \E l \in LinesIn(p, b) :
          /\ email_re(TextOf(p, b, l))
          /\ phone_re(TextOf(p, b, l))
          /\ MarkedOnce(p, b, l)

\* ------------------------------------------------------------------ C8
C8_Totals ==
    /\ total_redactions >= 0
    /\ pc = "returned" =>
          /\ Len(counters) = Len(input)
          /\ result.count = Sum(counters)
          /\ result.count = Len(log)
          /\ result.report = Report(Len(log))

\* C8: the returned count is the sum of the page counters and the number of
\* regions registered, the report states it, and the running total is
\* nonnegative and never decreases.
C8_CountIsSumOfRegions ==
    []C8_Totals /\ [][total_redactions' >= total_redactions]_vars

\* Two pages with regions were added up.
C8_Witness ==
    /\ pc = "returned"
    /\ Len(counters) >= 2
    /\ counters[1] > 0
    /\ counters[2] > 0
    /\ result.count = counters[1] + counters[2]

\* ------------------------------------------------------------------ C9
AppliedPages == {applied[n] : n \in 1..Len(applied)}

\* C9: a finished page was applied exactly when a region was registered on
\* it; a page is applied once, after all its lines were iterated, and holds
\* no pending region afterwards; only the page being processed holds pending
\* regions, so none is pending between pages or at save.
C9_AppliedBeforeNextPage ==
    /\ \A p \in Finished : (p \in AppliedPages) <=> (RegionsOn(p) # {})
    /\ \A p \in AppliedPages :
          /\ p \in Finished
          /\ \A b \in BlocksIn(p) : \A l \in LinesIn(p, b) : Iterations(p, b, l) # {}
    /\ \A n, m \in 1..Len(applied) : n < m => applied[n] < applied[m]
    /\ \A p \in 1..Len(annots) :
          annots[p] # <<>> => (p = page_num /\ pc \in {"scan", "raised"})
    /\ pc = "returned" => \A p \in 1..Len(annots) : annots[p] = <<>>

\* A call returned having applied one page and left another alone.
C9_Witness ==
    /\ pc = "returned"
    /\ AppliedPages # {}
    /\ Finished \ AppliedPages # {}

\* ------------------------------------------------------------------ C10
\* C10: a line is marked only by itself or by its predecessor in the block;
\* the LinkedIn match of a primary line is always with its successor in the
\* same block; the last line of a block is marked only if it matches e-mail
\* or phone or was folded in by its predecessor; the flag is clear at the
\* start of every block, whose first line is a primary candidate; no two
\* consecutive lines are both skipped.
C10_LookAheadStaysInBlock ==
    /\ \A n \in 1..Len(evals) :
          LET e == evals[n]
          IN  /\ e.how = "linkedin" => (~Contact(e.page, e.blk, e.idx)
                                          /\ Pair(e.page, e.blk, e.idx))
              /\ e.idx = 1 => e.how # "skipped"
              /\ e.how = "skipped" =>
                    /\ n > 1
                    /\ evals[n - 1].how = "linkedin"
                    /\ evals[n - 1].page = e.page
                    /\ evals[n - 1].blk = e.blk
                    /\ evals[n - 1].idx = e.idx - 1
    /\ \A p \in Pages : \A b \in BlocksIn(p) : \A l \in LinesIn(p, b) :
          /\ \A n \in RegionsAt(p, b, l) :
                log[n].by = <<b, l>> \/ log[n].by = <<b, l - 1>>
          /\ (l + 1 \notin LinesIn(p, b) /\ RegionsAt(p, b, l) # {}) =>
                \/ Contact(p, b, l)
                \/ /\ l - 1 \in LinesIn(p, b)
                   /\ Primary(p, b, l - 1)
                   /\ Pair(p, b, l - 1)
    /\ (pc = "scan" /\ idx = 1) => ~skip_next

\* The last line of a block and the first line of the next would match
\* together, and nothing was marked.
C10_Witness ==
    /\ pc = "returned"
    /\ log = <<>>
    /\ \E p \in Pages : \E b \in BlocksIn(p) :
          /\ b + 1 \in BlocksIn(p)
          /\ LinesIn(p, b) # {}
          /\ LinesIn(p, b + 1) # {}
          /\ linkedin_re(TextOf(p, b, Len(input[p].blocks[b])) \o TextOf(p, b + 1, 1))

====
